---- MODULE Spec2Model ----
(***************************************************************************)
(* The two synthtool scripts of nodejs-storage, owlbot.py and synth.py.    *)
(*                                                                         *)
(* Each script is a straight-line module body: fetch the node_library      *)
(* template set, s.copy it into the working tree (owlbot.py with an        *)
(* exclusion list), s.replace one string in .circleci/config.yml, and (in  *)
(* owlbot.py only) node.fix().  The model runs both scripts, each on its   *)
(* own checkout of the same starting working tree, and lets each script be *)
(* re-run.                                                                 *)
(*                                                                         *)
(* A working tree (and a template set) is a function from the paths of the *)
(* files that exist to their text.  A text is a sequence of tokens; the    *)
(* tokens are the pieces of the search and replacement strings plus one    *)
(* token standing for any other text.                                      *)
(***************************************************************************)
EXTENDS Integers, Sequences, FiniteSets, TLC

\* ---------------------------------------------------------------- bounds
\* Longest text (in tokens) of a .circleci/config.yml drawn in Init.
MaxLen == 4
\* Number of consecutive runs of each script.
MaxRuns == 2
\* At most this many excluded paths are missing from the template set.
MaxMissing == 1
\* At most this many files besides config.yml pre-exist in the working tree.
MaxLocal == 1

\* ---------------------------------------------------------------- texts
Cmd == "command: "
Npm == "npm run system-test"
Mkdir == "mkdir $HOME/.config && "
Other == "#"

\* Tokens of the texts drawn in Init.
InputTokens == {Cmd, Npm, Other}

\* s.replace's second argument: "command: npm run system-test".
Before == <<Cmd, Npm>>

AfterSwapped == <<Cmd, Npm, Mkdir>>
\* s.replace's third argument:
\* "command: mkdir $HOME/.config && npm run system-test".
After == <<Cmd, Mkdir, Npm>>

Texts == UNION {[1..n -> InputTokens] : n \in 0..MaxLen}

Drop(text, n) == SubSeq(text, n + 1, Len(text))

StartsWith(text, pat) ==
    /\ Len(text) >= Len(pat)
    /\ SubSeq(text, 1, Len(pat)) = pat

Contains(text, pat) ==
    \E i \in 0..(Len(text) - Len(pat)) : SubSeq(text, i + 1, i + Len(pat)) = pat

\* re.subn's count: the leftmost non-overlapping matches of Before in text.
RECURSIVE Matches(_)
Matches(text) ==
    IF Len(text) < Len(Before) THEN 0
    ELSE IF StartsWith(text, Before) THEN 1 + Matches(Drop(text, Len(Before)))
    ELSE Matches(Tail(text))

SubFirst(text) ==
    IF \E i \in 0..(Len(text) - Len(Before)) :
           SubSeq(text, i + 1, i + Len(Before)) = Before
    THEN LET i == CHOOSE j \in 0..(Len(text) - Len(Before)) :
                     /\ SubSeq(text, j + 1, j + Len(Before)) = Before
                     /\ \A k \in 0..(j - 1) :
                            SubSeq(text, k + 1, k + Len(Before)) # Before
         IN  SubSeq(text, 1, i) \o After \o Drop(text, i + Len(Before))
    ELSE text
\* re.sub(before, after, text): every leftmost non-overlapping match of
\* Before is replaced by After, the text between matches is kept.
RECURSIVE Sub(_)
Sub(text) ==
    IF Len(text) < Len(Before) THEN text
    ELSE IF StartsWith(text, Before)
         THEN After \o Sub(Drop(text, Len(Before)))
         ELSE <<Head(text)>> \o Sub(Tail(text))

\* ---------------------------------------------------------------- paths
Scripts == {"owlbot", "synth"}

\* The file s.replace names.
Cfg == ".circleci/config.yml"
\* A template file neither script excludes.
License == "LICENSE"
\* A source file of the target project; no template writes it.
SrcFile == "src/index.ts"

\* The excludes argument of owlbot.py's s.copy, in source order.
OwlbotExcludes ==
    <<".jsdoc.js",
      ".github/release-please.yml",
      ".github/sync-repo-settings.yaml",
      ".github/workflows/ci.yaml",
      ".prettierrc.js",
      ".mocharc.js",
      ".kokoro/continuous/node14/system-test.cfg",
      ".kokoro/presubmit/node14/system-test.cfg",
      ".kokoro/release/publish.cfg",
      ".kokoro/system-test.sh",
      ".kokoro/samples-test.sh">>

Range(seq) == {seq[i] : i \in 1..Len(seq)}

ExcludeSet == Range(OwlbotExcludes)

Paths == ExcludeSet \cup {Cfg, License, SrcFile}

\* The JavaScript / TypeScript sources among the paths: what `npm run fix`
\* lints.
JsSources == {".jsdoc.js", ".prettierrc.js", ".mocharc.js", SrcFile}

ExcludesShort(s) == IF s = "owlbot" THEN ExcludeSet \ {".mocharc.js"} ELSE {}
ExcludesWide(s) == IF s = "owlbot" THEN ExcludeSet \cup {Cfg, License} ELSE {}
ExcludesBoth(s) == ExcludeSet
\* The excludes of each script's s.copy: owlbot.py passes its list,
\* synth.py passes none.
Excludes(s) == IF s = "owlbot" THEN ExcludeSet ELSE {}

ReplaceSourcesAll == Paths
\* The sources argument of s.replace.
ReplaceSources == {Cfg}

OwlbotBodyFixFirst == <<"node_library", "copy", "fix", "replace">>
\* The statements of owlbot.py, in order.
OwlbotBody == <<"node_library", "copy", "replace", "fix">>

\* The statements of synth.py, in order.
SynthBody == <<"node_library", "copy", "replace">>

Body(s) == IF s = "owlbot" THEN OwlbotBody ELSE SynthBody

\* Text of every template file but config.yml; it holds the search string.
TmplText == <<Other, Cmd, Npm>>
\* Text of the files that pre-exist in the working tree.
LocalText == <<Cmd, Npm, Other>>
\* Text of a file `npm run fix` rewrote.
LintedText == <<Other, Other>>

\* The value of `templates` before node_library has returned.
NoTemplates == <<>>

\* ---------------------------------------------------------------- state
VARIABLES
    lib,        \* the template set node_library renders
    templates,  \* templates[s]: the script's `templates` variable
    tree,       \* tree[s]: the working tree the script runs in
    pc,         \* pc[s]: statements of Body(s) executed in this run
    runs,       \* runs[s]: completed runs before this one
    log,        \* log[s]: the calls made in this run, in order
    written,    \* written[s]: the files s.copy wrote in this run
    replaced,   \* replaced[s]: s.replace's return value in this run
    prevCfg     \* prevCfg[s]: config.yml as the previous run left it

vars == <<lib, templates, tree, pc, runs, log, written, replaced, prevCfg>>

\* config.yml of a tree: {} when the file does not exist, else {its text}.
CfgOf(t) == IF Cfg \in DOMAIN t THEN {t[Cfg]} ELSE {}

Small(S, n) == {X \in SUBSET S : Cardinality(X) <= n}

\* The pre-existing config.yml texts drawn for a template config.yml: the
\* copy overwrites a config.yml the template set holds, so one pre-existing
\* text stands for all of them.
LocalCfgs(tcfg) ==
    IF tcfg = {} THEN {{}} \cup {{t} : t \in Texts} ELSE {{}, {LocalText}}

\* The config texts vary with the other files at their defaults, and the
\* other files vary with config.yml at its defaults.
CfgAtDefault(tcfg, lcfg) == tcfg \in {{}, {TmplText}} /\ lcfg = {}

Init ==
    \E tcfg \in {{}} \cup {{t} : t \in Texts} :
    \E lcfg \in LocalCfgs(tcfg) :
    \E missing \in (IF CfgAtDefault(tcfg, lcfg)
                    THEN Small(ExcludeSet, MaxMissing) ELSE {{}}) :
    \E local \in (IF CfgAtDefault(tcfg, lcfg)
                  THEN Small(ExcludeSet \cup {License, SrcFile}, MaxLocal)
                  ELSE {{}}) :
        /\ lib = [p \in ((ExcludeSet \ missing) \cup {License}
                         \cup (IF tcfg = {} THEN {} ELSE {Cfg})) |->
                    IF p = Cfg THEN CHOOSE t \in tcfg : TRUE ELSE TmplText]
        /\ LET t0 == [p \in (local \cup (IF lcfg = {} THEN {} ELSE {Cfg})) |->
                        IF p = Cfg THEN CHOOSE t \in lcfg : TRUE ELSE LocalText]
           IN  tree = [s \in Scripts |-> t0]
        /\ templates = [s \in Scripts |-> NoTemplates]
        /\ pc = [s \in Scripts |-> 0]
        /\ runs = [s \in Scripts |-> 0]
        /\ log = [s \in Scripts |-> <<>>]
        /\ written = [s \in Scripts |-> {}]
        /\ replaced = [s \in Scripts |-> 0]
        /\ prevCfg = [s \in Scripts |-> {}]

\* The statement the script executes next, "end" past the last one.
Stmt(s) == IF pc[s] < Len(Body(s)) THEN Body(s)[pc[s] + 1] ELSE "end"

Advance(s, call) ==
    /\ pc' = [pc EXCEPT ![s] = @ + 1]
    /\ log' = [log EXCEPT ![s] = Append(@, call)]

\* templates = common_templates.node_library(source_location='build/src')
Fetch(s) ==
    /\ Stmt(s) = "node_library"
    /\ templates' = [templates EXCEPT ![s] = lib]
    /\ Advance(s, "node_library")
    /\ UNCHANGED <<lib, tree, runs, written, replaced, prevCfg>>

\* The tree after s.copy: every template file outside the excludes is
\* written over whatever the tree held; nothing else is touched.
CopyInto(t, src, excl) ==
    LET w == DOMAIN src \ excl
    IN  [p \in DOMAIN t \cup w |-> IF p \in w THEN src[p] ELSE t[p]]

\* s.copy(templates, excludes=[...])
Copy(s) ==
    /\ Stmt(s) = "copy"
    /\ tree' = [tree EXCEPT ![s] = CopyInto(@, templates[s], Excludes(s))]
    /\ written' = [written EXCEPT ![s] = DOMAIN templates[s] \ Excludes(s)]
    /\ Advance(s, "copy")
    /\ UNCHANGED <<lib, templates, runs, replaced, prevCfg>>

ReplaceOrCreate(t) ==
    [p \in DOMAIN t \cup ReplaceSources |->
        IF p \in ReplaceSources
        THEN (IF p \in DOMAIN t THEN Sub(t[p]) ELSE After)
        ELSE t[p]]
\* The tree after s.replace: each source that exists has its matches
\* substituted; a source that does not exist is skipped.
ReplaceIn(t) ==
    [p \in DOMAIN t |-> IF p \in ReplaceSources THEN Sub(t[p]) ELSE t[p]]

\* The number of substitutions s.replace makes in the tree.
RECURSIVE Replacements(_, _)
Replacements(t, ps) ==
    IF ps = {} THEN 0
    ELSE LET p == CHOOSE q \in ps : TRUE
         IN  Matches(t[p]) + Replacements(t, ps \ {p})

\* s.replace(".circleci/config.yml", "command: npm run system-test",
\*           "command: mkdir $HOME/.config && npm run system-test")
Replace(s) ==
    /\ Stmt(s) = "replace"
    /\ tree' = [tree EXCEPT ![s] = ReplaceIn(@)]
    /\ replaced' = [replaced EXCEPT
                      ![s] = Replacements(tree[s], DOMAIN tree[s] \cap ReplaceSources)]
    /\ Advance(s, "replace")
    /\ UNCHANGED <<lib, templates, runs, written, prevCfg>>

\* node.fix(): `npm run fix` lints the project's JavaScript / TypeScript
\* sources; which of them it rewrites is up to the linter.
Fix(s) ==
    /\ Stmt(s) = "fix"
    /\ \E F \in SUBSET (DOMAIN tree[s] \cap JsSources) :
           tree' = [tree EXCEPT ![s] =
                       [p \in DOMAIN @ |-> IF p \in F THEN LintedText ELSE @[p]]]
    /\ Advance(s, "fix")
    /\ UNCHANGED <<lib, templates, runs, written, replaced, prevCfg>>

\* The script has ended and is run again in the same working tree.
Rerun(s) ==
    /\ Stmt(s) = "end"
    /\ runs[s] + 1 < MaxRuns
    /\ runs' = [runs EXCEPT ![s] = @ + 1]
    /\ pc' = [pc EXCEPT ![s] = 0]
    /\ log' = [log EXCEPT ![s] = <<>>]
    /\ templates' = [templates EXCEPT ![s] = NoTemplates]
    /\ written' = [written EXCEPT ![s] = {}]
    /\ replaced' = [replaced EXCEPT ![s] = 0]
    /\ prevCfg' = [prevCfg EXCEPT ![s] = CfgOf(tree[s])]
    /\ UNCHANGED <<lib, tree>>

Next ==
    \E s \in Scripts :
        \/ Fetch(s)
        \/ Copy(s)
        \/ Replace(s)
        \/ Fix(s)
        \/ Rerun(s)

Spec == Init /\ [][Next]_vars

\* ---------------------------------------------------------------- helpers
\* The script has made this call in its current run.
Called(s, call) == \E i \in 1..Len(log[s]) : log[s][i] = call

\* The script has ended its current run.
Ended(s) == pc[s] = Len(Body(s))

\* This step is the script's replace call.
ReplaceStep(s) == log'[s] = Append(log[s], "replace")

\* ---------------------------------------------------------------- claims
Owl == "owlbot"
Syn == "synth"

\* The 11 paths the claims name as excluded.
ClaimedExcluded ==
    {".jsdoc.js", ".github/release-please.yml", ".github/sync-repo-settings.yaml",
     ".github/workflows/ci.yaml", ".prettierrc.js", ".mocharc.js",
     ".kokoro/continuous/node14/system-test.cfg",
     ".kokoro/presubmit/node14/system-test.cfg", ".kokoro/release/publish.cfg",
     ".kokoro/system-test.sh", ".kokoro/samples-test.sh"}

IsPrefix(a, b) == Len(a) <= Len(b) /\ a = SubSeq(b, 1, Len(a))

\* C1: after owlbot.py's copy step none of its 11 excluded paths is among
\* the files the copy wrote, whatever the template set.
C1_ExcludedNeverWritten ==
    /\ Cardinality(ClaimedExcluded) = 11
    /\ \A p \in ClaimedExcluded : p \notin written[Owl]

\* An excluded path of the template set was left out of a copy that wrote
\* other files.
C1_Witness ==
    /\ Called(Owl, "copy")
    /\ written[Owl] # {}
    /\ \E p \in ClaimedExcluded : p \in DOMAIN templates[Owl]

\* C2 as stated: once a script has ended, config.yml holds the replacement
\* string and no longer holds the search string.
C2_Original ==
    \A s \in Scripts :
        Ended(s) =>
            /\ Cfg \in DOMAIN tree[s]
            /\ Contains(tree[s][Cfg], After)
            /\ ~Contains(tree[s][Cfg], Before)

\* C2 amended: once a script's replace step has run, config.yml, if it
\* exists, does not hold the search string; and if the replace step found the
\* search string in it, it holds the replacement string.
C2_Amended ==
    \A s \in Scripts :
        Called(s, "replace") =>
            /\ Cfg \in DOMAIN tree[s] => ~Contains(tree[s][Cfg], Before)
            /\ replaced[s] > 0 =>
                   /\ Cfg \in DOMAIN tree[s]
                   /\ Contains(tree[s][Cfg], After)

\* A script has ended after replacing two occurrences in config.yml.
C2_Witness ==
    \E s \in Scripts :
        /\ Ended(s)
        /\ replaced[s] = 2
        /\ Contains(tree[s][Cfg], After)

\* C3: config.yml after a second consecutive run of a script equals
\* config.yml after the first, and the replacement applied to a config.yml
\* it was already applied to changes nothing (no search string is left).
C3_Idempotent ==
    \A s \in Scripts :
        /\ (Ended(s) /\ runs[s] >= 1) => CfgOf(tree[s]) = prevCfg[s]
        /\ (Called(s, "replace") /\ Cfg \in DOMAIN tree[s]) =>
               /\ Sub(tree[s][Cfg]) = tree[s][Cfg]
               /\ Matches(tree[s][Cfg]) = 0
               /\ ~Contains(tree[s][Cfg], Before)

\* A script has ended its second run in a tree whose config.yml no template
\* rewrote and whose first run replaced the search string.
C3_Witness ==
    \E s \in Scripts :
        /\ Ended(s)
        /\ runs[s] >= 1
        /\ Cfg \notin DOMAIN lib
        /\ Cfg \in DOMAIN tree[s]
        /\ Contains(tree[s][Cfg], After)

\* C4 as stated: the number of files owlbot.py copies is the size of the
\* template set minus 11, the length of the exclusion list.
C4_Original ==
    Called(Owl, "copy") =>
        Cardinality(written[Owl]) = Cardinality(DOMAIN lib) - 11

\* C4 amended: synth.py copies every file of the template set; owlbot.py
\* copies exactly the template set minus its exclusion list, and the number
\* of files it copies is the size of the template set minus the number of
\* excluded paths the template set holds (11 when it holds them all).
C4_Amended ==
    /\ Called(Syn, "copy") => written[Syn] = DOMAIN lib
    /\ Called(Owl, "copy") =>
           /\ written[Owl] = DOMAIN lib \ ClaimedExcluded
           /\ Cardinality(written[Owl]) =
                  Cardinality(DOMAIN lib)
                      - Cardinality(DOMAIN lib \cap ClaimedExcluded)
           /\ ClaimedExcluded \subseteq DOMAIN lib =>
                  Cardinality(written[Owl]) = Cardinality(DOMAIN lib) - 11

\* Both scripts have copied a template set that lacks an excluded path.
C4_Witness ==
    /\ Called(Syn, "copy")
    /\ Called(Owl, "copy")
    /\ written[Owl] # {}
    /\ \E p \in ClaimedExcluded : p \notin DOMAIN lib

\* C5: owlbot.py calls node.fix exactly once per run, after the copy and the
\* replacement; synth.py never calls it and ends after its replacement; in
\* both the fetch precedes the copy and the copy the replacement.
C5_Order ==
    /\ IsPrefix(log[Owl], <<"node_library", "copy", "replace", "fix">>)
    /\ IsPrefix(log[Syn], <<"node_library", "copy", "replace">>)
    /\ Ended(Owl) <=> Len(log[Owl]) = 4
    /\ Ended(Syn) <=> Len(log[Syn]) = 3
    /\ \A s \in Scripts : Ended(s) => ~ENABLED (Fetch(s) \/ Copy(s) \/ Replace(s) \/ Fix(s))

\* owlbot.py has ended a run with its fix and synth.py one without.
C5_Witness ==
    /\ Ended(Owl)
    /\ Called(Owl, "fix")
    /\ Ended(Syn)
    /\ runs[Owl] >= 1

\* C6: a replace step that finds no config.yml in the working tree does not
\* create it and leaves the whole tree unchanged.
C6_AbsentNoop ==
    [][\A s \in Scripts :
           (ReplaceStep(s) /\ Cfg \notin DOMAIN tree[s]) => tree'[s] = tree[s]]_vars

\* A replace step has run in a tree that holds other files and no
\* config.yml.
C6_Witness ==
    \E s \in Scripts :
        /\ Called(s, "replace")
        /\ Cfg \notin DOMAIN tree[s]
        /\ DOMAIN tree[s] # {}

\* new is old with each leftmost non-overlapping occurrence of the search
\* string changed to the replacement string and nothing else changed.
RECURSIVE OnlyOccurrencesChanged(_, _)
OnlyOccurrencesChanged(old, new) ==
    IF StartsWith(old, Before)
    THEN /\ StartsWith(new, After)
         /\ OnlyOccurrencesChanged(Drop(old, Len(Before)), Drop(new, Len(After)))
    ELSE IF old = <<>> THEN new = <<>>
    ELSE /\ new # <<>>
         /\ Head(new) = Head(old)
         /\ OnlyOccurrencesChanged(Tail(old), Tail(new))

\* C7: the replace step changes no file but config.yml, copied files that
\* hold the search string included, and in config.yml it changes only the
\* occurrences of the search string.
C7_OnlyConfig ==
    [][\A s \in Scripts :
           ReplaceStep(s) =>
               /\ DOMAIN tree'[s] = DOMAIN tree[s]
               /\ \A p \in DOMAIN tree[s] \ {Cfg} : tree'[s][p] = tree[s][p]
               /\ Cfg \in DOMAIN tree[s] =>
                      OnlyOccurrencesChanged(tree[s][Cfg], tree'[s][Cfg])]_vars

\* After a replace step that changed config.yml, a copied file still holds
\* the search string.
C7_Witness ==
    \E s \in Scripts :
        /\ Called(s, "replace")
        /\ replaced[s] > 0
        /\ \E p \in written[s] \ {Cfg} : Contains(tree[s][p], Before)

\* C8: a file at an excluded path is neither overwritten nor deleted by
\* owlbot.py's fetch, copy and replace steps, in any run.
C8_ExcludedKept ==
    [][\A p \in ClaimedExcluded :
           (p \in DOMAIN tree[Owl] /\ Len(log'[Owl]) > Len(log[Owl])
                /\ log'[Owl][Len(log'[Owl])] # "fix") =>
               /\ p \in DOMAIN tree'[Owl]
               /\ tree'[Owl][p] = tree[Owl][p]]_vars

\* owlbot.py has replaced, in its second run, in a tree where an excluded
\* path holds a text other than the template's.
C8_Witness ==
    /\ runs[Owl] >= 1
    /\ Called(Owl, "replace")
    /\ \E p \in ClaimedExcluded :
           /\ p \in DOMAIN tree[Owl]
           /\ p \in DOMAIN lib
           /\ tree[Owl][p] # lib[p]

\* Both scripts are in their first run, past the replace step, and
\* owlbot.py's fix step has not run.
BothReplaced ==
    /\ runs[Owl] = 0
    /\ runs[Syn] = 0
    /\ Called(Owl, "replace")
    /\ Called(Syn, "replace")
    /\ ~Called(Owl, "fix")

\* C9: started from the same tree with the same template set, the two
\* scripts agree on every non-excluded path once both have replaced: the
\* trees differ at excluded paths only.
C9_AgreeOutsideExcludes ==
    BothReplaced =>
        \A p \in Paths \ ClaimedExcluded :
            /\ p \in DOMAIN tree[Owl] <=> p \in DOMAIN tree[Syn]
            /\ p \in DOMAIN tree[Owl] => tree[Owl][p] = tree[Syn][p]

\* Both have replaced, config.yml was rewritten in both trees, and the trees
\* differ at an excluded path.
C9_Witness ==
    /\ BothReplaced
    /\ replaced[Owl] > 0
    /\ Cfg \in DOMAIN tree[Syn]
    /\ \E p \in ClaimedExcluded : p \in DOMAIN tree[Syn] /\ p \notin DOMAIN tree[Owl]

====
